---- MODULE Spec2Model ----
(***************************************************************************)
(* Model of the time-stepped co-simulation engine of the data science      *)
(* simulator: Simulation (models/simulation.py) driving a virtual patient  *)
(* and a LoopController (models/controller.py).                            *)
(*                                                                         *)
(* Times are minutes.  duration_hrs is kept in minutes as well, so the     *)
(* comparison of is_finished is exact.  Objects live in heaps indexed by   *)
(* an identity, and a Simulation holds the identities it was given.        *)
(***************************************************************************)
EXTENDS Integers, Sequences, FiniteSets, TLC

\* ------------------------------------------------------------------ bounds
\* Longest configured duration, in minutes.
MaxDuration == 10
\* How many times run() is called on one Simulation.
MaxRuns == 2

\* Most segments handed to a SettingSchedule24Hr.
MaxSegments == 2
\* Most events handed to an EventTimeline.
MaxEvents == 3
\* Draws of np.random a seed is followed for before the stream repeats.
StreamLen == 4

\* --------------------------------------------------------------- constants
\* datetime.timedelta(minutes=5) of Simulation.step
TickMinutes == 5

\* datetime.timedelta(minutes=duration_minutes), in seconds
SecondsPerMinute == 60

Sims == {1, 2}
\* The caller's patient and controller objects.
PatientIds == {1}
ControllerIds == {1}
StartTimes == {0}
\* Configured durations, in minutes: negative, zero, off the grid, one tick,
\* and the longest with the one just short of it.
Durations == {0 - TickMinutes, 0, 3, TickMinutes, MaxDuration - 2, MaxDuration}

VARIABLES
    virtual_patient,      \* heap: patient id -> patient (with its pump)
    controller,           \* heap: controller id -> LoopController fields
    outputs,              \* heap: the records the decision function returned
    pump_calls,           \* patient id -> temp-basal commands its pump received
    gate,                 \* patient id -> answers of the acceptance gate
    pc,                   \* sim -> position in __init__ / run
    time,                 \* sim -> self.time
    start_time,           \* sim -> self.start_time
    duration_hrs,         \* sim -> self.duration_hrs (minutes)
    multiprocess,         \* sim -> self.multiprocess
    vp,                   \* sim -> identity held in self.virtual_patient
    ctl,                  \* sim -> identity held in self.controller
    simulation_results,   \* sim -> dict, as the sequence of its items
    queue,                \* sim -> messages put on self.queue
    log,                  \* sim -> component calls made so far (history)
    runs,                 \* sim -> number of run() calls (history)
    loop_inputs,          \* controller id -> histories last handed to pyloopkit
    np_pos,               \* sim -> draws taken from np.random in its process
    np_stream,            \* the draws np.random yields from the seed
    sensor_stream,        \* the draws a sensor's random_state yields
    kind,                 \* controller id -> class and connect_prob
    policy,               \* the decision function, tick time -> output
    schedule_pc,          \* SettingSchedule24Hr: "new", "built" or "failed"
    schedule_args,        \* the constructor's arguments (history)
    schedule,             \* self.schedule: dict, as the sequence of its items
    schedule_time,        \* self.time, as seconds of the day
    schedule_result,      \* what the last get_state() returned or raised
    timeline_pc,          \* EventTimeline: "new" or "built"
    events,               \* self.events: the rows of the DataFrame
    event_result,         \* what the last get_event() returned
    controller_config     \* controller id -> the config object its caller holds

\* The variables of the Simulation and its components.
simVars == <<virtual_patient, controller, outputs, pump_calls, gate, pc, time,
             start_time, duration_hrs, multiprocess, vp, ctl,
             simulation_results, queue, log, runs, loop_inputs>>

\* The random sources and the scenario's choice of controller and decisions.
randomVars == <<np_stream, sensor_stream, kind, policy>>

scheduleVars == <<schedule_pc, schedule_args, schedule, schedule_time,
                  schedule_result>>

timelineVars == <<timeline_pc, events, event_result>>

\* The controller_config objects of the scenario, which stay with the caller.
configVars == <<controller_config>>

\* What no step of a Simulation with a LoopController touches.
auxVars == <<np_pos, randomVars, scheduleVars, timelineVars, configVars>>

vars == <<simVars, auxVars>>

heapVars == <<virtual_patient, controller, outputs, pump_calls, gate>>
cfgVars == <<start_time, duration_hrs, multiprocess, vp, ctl>>

\* ------------------------------------------------------------ small helpers
Last(q) == q[Len(q)]

IsPrefix(a, b) == Len(a) <= Len(b) /\ SubSeq(b, 1, Len(a)) = a

Max(a, b) == IF a >= b THEN a ELSE b

\* ------------------------------------------------- decision function output
\* The record pyloopkit's update() returns, reduced to the two entries the
\* controller reads.  bolus_key / tb_key: the key is in the dict.  tb_set:
\* the value under recommended_temp_basal is not None.
DecisionOutput(bk, b, tk, ts, r, d) ==
    [bolus_key |-> bk, bolus |-> b, tb_key |-> tk, tb_set |-> ts,
     rate |-> r, duration |-> d]

TempBasalPairs == {<<0, 0>>, <<0, 30>>, <<1, 30>>}

\* The outputs the decision function ranges over: without the bolus entry
\* (with and without a temp basal), with a zero bolus and every shape of the
\* temp-basal entry, and with a bolus of 1 U beside no and beside a real temp
\* basal.
DecisionOutputs ==
    {DecisionOutput(FALSE, 0, TRUE, FALSE, 0, 0),
     DecisionOutput(FALSE, 0, TRUE, TRUE, 1, 30),
     DecisionOutput(TRUE, 0, FALSE, FALSE, 0, 0),
     DecisionOutput(TRUE, 0, TRUE, FALSE, 0, 0),
     DecisionOutput(TRUE, 1, TRUE, FALSE, 0, 0)}
    \cup {DecisionOutput(TRUE, 0, TRUE, TRUE, x[1], x[2]) : x \in TempBasalPairs}
    \cup {DecisionOutput(TRUE, 1, TRUE, TRUE, 1, 30)}

\* ------------------------------------------------------ measures / events
\* TempBasal(time, value, duration, "U/hr"); is_none stands for Python's None.
TempBasal(t, value, duration) ==
    [is_none |-> FALSE, time |-> t, value |-> value,
     scheduled_duration_minutes |-> duration]

NoTempBasal ==
    [is_none |-> TRUE, time |-> 0, value |-> 0, scheduled_duration_minutes |-> 0]

\* Bolus(value, "U"); is_none stands for None, raised for the exception.
Bolus(value) == [raised |-> FALSE, is_none |-> FALSE, value |-> value]

NoBolus == [raised |-> FALSE, is_none |-> TRUE, value |-> 0]

BolusError == [raised |-> TRUE, is_none |-> TRUE, value |-> 0]

\* EventTimeline.add_event(time, event): the timeline holds at most one event
\* per timestamp, the later write replacing the earlier one.
add_event(timeline, t, event) ==
    {e \in timeline : e[1] /= t} \cup {<<t, event>>}

\* The events of a timeline in the order of their timestamps.
RECURSIVE SortedEvents(_)
SortedEvents(timeline) ==
    IF timeline = {} THEN <<>>
    ELSE LET first == CHOOSE e \in timeline : \A f \in timeline : e[1] <= f[1]
         IN  <<first>> \o SortedEvents(timeline \ {first})

\* timeline.get_loop_inputs(time, num_hours_history): the events that start in
\* [time - num_hours_history, time], by start time; time in minutes.
get_loop_inputs(timeline, t, hours) ==
    SortedEvents({e \in timeline : t - hours * 60 <= e[1] /\ e[1] <= t})

\* ------------------------------------------------------------------- sensor
\* random_state.normal(true_bg, std_dev) - true_bg, as a whole number: the
\* k-th next draw of the sensor's random_state.
sensor_noise(pt, k) ==
    sensor_stream[((pt.sensor_pos + k - 1) % Len(sensor_stream)) + 1]

\* get_bg: IdealSensor returns true_bg, NoisySensor a draw around it.
get_bg(pt, true_bg, k) ==
    IF pt.sensor_noisy THEN true_bg + sensor_noise(pt, k) ELSE true_bg

\* sensor_bg_history.append(time, value): the trace grows by one sample at
\* its end.
history_append(history, t, value) == Append(history, <<t, value>>)

\* Mutant: the sample of the update replaces the latest one of the history.
sensor_update_replaces_last(pt, t, true_bg, true_bg_prediction) ==
    [pt EXCEPT !.sensor_bg = get_bg(pt, true_bg, 1),
               !.sensor_bg_prediction = <<get_bg(pt, true_bg_prediction, 2)>>,
               !.sensor_pos = IF pt.sensor_noisy THEN @ + 2 ELSE @,
               !.sensor_bg_history =
                    history_append(SubSeq(@, 1, Len(@) - 1), t,
                                   get_bg(pt, true_bg, 1))]

\* Sensor.update(time, patient_true_bg, patient_true_bg_prediction): one draw
\* for the value and one for each value of the trace; the measured value is
\* appended with the time to the history of the sensor's config.
sensor_update(pt, t, true_bg, true_bg_prediction) ==
    [pt EXCEPT !.sensor_bg = get_bg(pt, true_bg, 1),
               !.sensor_bg_prediction = <<get_bg(pt, true_bg_prediction, 2)>>,
               !.sensor_pos = IF pt.sensor_noisy THEN @ + 2 ELSE @,
               !.sensor_bg_history =
                    history_append(@, t, get_bg(pt, true_bg, 1))]

\* Sensor.get_loop_inputs(): the samples of self.sensor_config's history,
\* the object update() appends to.
sensor_get_loop_inputs(pt) == pt.sensor_bg_history

\* ---------------------------------------------------------- pump, patient
\* pump.set_temp_basal(temp_basal): the new override replaces the active one
\* and the command goes on the pump's temp-basal timeline.
set_temp_basal(pt, tb) ==
    [pt EXCEPT !.temp_basal = tb,
               !.pump_temp_basal_event_timeline = add_event(@, tb.time, tb.value)]

\* pump.deactivate_temp_basal(): resume the schedule.
deactivate_temp_basal(pt) ==
    [pt EXCEPT !.temp_basal = NoTempBasal]

\* Insulin on board, from the boluses the patient took up to time t.
InsulinOnBoard(pt, t) ==
    Cardinality({e \in pt.bolus_event_timeline : e[1] <= t})

\* The metabolism model's forecast of the next glucose value.
Forecast(pt) ==
    Max(40, pt.bg + 2 - 10 * pt.iob - (IF pt.temp_basal.is_none THEN 0 ELSE pt.temp_basal.value))

\* virtual_patient.init(): steady state from the events present at t0.
patient_init(pt, t) ==
    [pt EXCEPT !.iob = InsulinOnBoard(pt, t)]

\* virtual_patient.predict(): cache the forecast.
patient_predict(pt) ==
    [pt EXCEPT !.bg_prediction = Forecast(pt)]

\* virtual_patient.update_from_prediction(time): last tick's forecast becomes
\* this tick's truth.
patient_update_from_prediction(pt, t) ==
    [pt EXCEPT !.bg = pt.bg_prediction]

\* virtual_patient.update(time): the sensor measures the new true state, the
\* pump drops an expired override, insulin on board is recomputed from the
\* timeline and the forecast is refreshed.
patient_update(pt, t) ==
    LET tb == pt.temp_basal
        expired == ~tb.is_none /\ t >= tb.time + tb.scheduled_duration_minutes
        p0 == sensor_update(pt, t, pt.bg, pt.bg_prediction)
        p1 == [p0 EXCEPT !.temp_basal = IF expired THEN NoTempBasal ELSE tb,
                         !.iob = InsulinOnBoard(pt, t)]
    IN  patient_predict(p1)

\* virtual_patient.get_state(): a fresh VirtualPatientState value.
patient_get_state(pt) ==
    [bg |-> pt.bg, sensor_bg |-> pt.sensor_bg, iob |-> pt.iob,
     pump_state |-> pt.temp_basal, sbr |-> pt.sbr, cir |-> pt.cir,
     isf |-> pt.isf]

\* The patient as configured: glucose 110, an IdealSensor whose history starts
\* with that value, empty timelines, one scheduled basal rate, carb ratio and
\* sensitivity for the whole day.
InitialPatient ==
    [bg |-> 110, bg_prediction |-> 110, iob |-> 0, temp_basal |-> NoTempBasal,
     bolus_event_timeline |-> {}, pump_bolus_event_timeline |-> {},
     pump_temp_basal_event_timeline |-> {}, pump_carb_event_timeline |-> {},
     sensor_noisy |-> FALSE, sensor_pos |-> 0, sensor_bg |-> 110,
     sensor_bg_prediction |-> <<>>, sbr |-> 1, cir |-> 10, isf |-> 50,
     sensor_bg_history |-> <<<<0 - TickMinutes, 110>>>>]

\* ------------------------------------------------------------ LoopController
\* The class of a controller object and, for the disconnector, connect_prob
\* in tenths.
LoopControllerKind == [class |-> "LoopController", connect_prob |-> 10]

LoopControllerDisconnectorKind(connect_prob) ==
    [class |-> "LoopControllerDisconnector", connect_prob |-> connect_prob]

DoNothingControllerKind == [class |-> "DoNothingController", connect_prob |-> 10]

\* A controller_config object: the algorithm settings and the three event
\* timelines of the scenario.
ControllerConfig(settings, bolus, temp_basal, carb) ==
    [controller_settings |-> settings, bolus_event_timeline |-> bolus,
     temp_basal_event_timeline |-> temp_basal, carb_event_timeline |-> carb]

\* A config without events.
EmptyConfig == ControllerConfig(0, {}, {}, {})

\* LoopController.__init__(time, controller_config): self.controller_config is
\* a deep copy, the value the config has now; the three timeline attributes
\* are taken from the argument itself, so they refer to the timelines of the
\* caller's object ("config").  No recommendation yet (0 stands for None).
LoopController_init(t, config) ==
    [time |-> t, recommendations |-> 0, controller_config |-> config,
     timelines |-> "config"]

\* The controller a scenario without events constructs.
InitialController == LoopController_init(0, EmptyConfig)

\* Mutant: update() keeps the timeline references of the constructor.
bind_timelines_kept(c) == c

\* update(): the three timeline attributes are rebound to the timelines of
\* virtual_patient.pump.
bind_timelines(c) == [c EXCEPT !.timelines = "pump"]

\* The timelines the controller's three attributes refer to: the pump's, or
\* still those of the caller's config object.
controller_timelines(c, pt, config) ==
    IF c.timelines = "pump"
    THEN [bolus_event_timeline |-> pt.pump_bolus_event_timeline,
          temp_basal_event_timeline |-> pt.pump_temp_basal_event_timeline,
          carb_event_timeline |-> pt.pump_carb_event_timeline]
    ELSE [bolus_event_timeline |-> config.bolus_event_timeline,
          temp_basal_event_timeline |-> config.temp_basal_event_timeline,
          carb_event_timeline |-> config.carb_event_timeline]

\* loop_algorithm_output.get('recommended_bolus')[0]: indexing the None that
\* .get returns for a missing key raises; a value > 0 becomes a Bolus.
get_recommended_bolus(o) ==
    IF ~o.bolus_key THEN BolusError
    ELSE IF o.bolus > 0 THEN Bolus(o.bolus) ELSE NoBolus

\* .get("recommended_temp_basal") is None for a missing key and for a None
\* value alike; otherwise the pair becomes TempBasal(self.time, rate, duration).
get_recommended_temp_basal(t, o) ==
    IF o.tb_key /\ o.tb_set THEN TempBasal(t, o.rate, o.duration) ELSE NoTempBasal

\* Mutant: "or" for "and".
is_cancel_either(tb) == tb.scheduled_duration_minutes = 0 \/ tb.value = 0

\* "In pyloopkit this is a cancel"
is_cancel(tb) == tb.scheduled_duration_minutes = 0 /\ tb.value = 0

\* set_bolus_recommendation_event: the bolus goes on the patient's timeline
\* and on the pump's.
set_bolus_recommendation_event(pt, t, bolus) ==
    [pt EXCEPT !.bolus_event_timeline = add_event(@, t, bolus.value),
               !.pump_bolus_event_timeline = add_event(@, t, bolus.value)]

\* The temp-basal branch of apply_loop_recommendations, on the patient's pump.
modulate_temp_basal(pt, tb) ==
    IF is_cancel(tb) THEN deactivate_temp_basal(pt) ELSE set_temp_basal(pt, tb)

\* The command the pump receives in the temp-basal branch.
temp_basal_command(tb) ==
    IF is_cancel(tb) THEN <<"deactivate_temp_basal", 0, 0, 0>>
    ELSE <<"set_temp_basal", tb.time, tb.value, tb.scheduled_duration_minutes>>

\* Mutant: a refused bolus ends the tick, its temp basal is not looked at.
loop_branch_gated(bolus_rec, temp_basal_rec, accept) ==
    IF bolus_rec.raised THEN "raise"
    ELSE IF ~bolus_rec.is_none THEN (IF accept THEN "bolus" ELSE "none")
    ELSE IF ~temp_basal_rec.is_none THEN "temp_basal"
    ELSE "none"

\* Which branch of apply_loop_recommendations is taken.  The acceptance gate
\* is consulted only for a Bolus (Python's "and" short-circuits).
loop_branch(bolus_rec, temp_basal_rec, accept) ==
    IF bolus_rec.raised THEN "raise"
    ELSE IF ~bolus_rec.is_none /\ accept THEN "bolus"
    ELSE IF ~temp_basal_rec.is_none THEN "temp_basal"
    ELSE "none"

\* Mutant: the stored record is updated in place (self.recommendations.update)
\* instead of the attribute being rebound.
assign_in_place(heap, old, new) ==
    IF old = 0 THEN [heap |-> heap, ref |-> new]
    ELSE [heap |-> [heap EXCEPT ![old] = heap[new]], ref |-> old]

\* self.recommendations = loop_algorithm_output: the attribute is rebound to
\* the object the decision function returned (at `new` in the heap); no
\* object of the heap is written.
assign_recommendations(heap, old, new) == [heap |-> heap, ref |-> new]

\* Mutant: the output is stored before the recommendations are extracted.
recommendations_after_stored_first(raised, old, assigned) == assigned

\* self.recommendations after apply_loop_recommendations: the assignment is
\* its last statement, which an exception of the extraction never reaches.
recommendations_after(raised, old, assigned) == IF raised THEN old ELSE assigned

\* self.num_hours_history
num_hours_history == 8

\* No input record assembled yet.
NoInputs ==
    [assembled |-> FALSE, time_to_calculate_at |-> 0, bolus |-> <<>>,
     temp_basal |-> <<>>, dose |-> <<>>, carb |-> <<>>]

\* Mutant: a look-back of a day instead of num_hours_history.
prepare_inputs_day(self, t) ==
    LET bolus == get_loop_inputs(self.bolus_event_timeline, t, 24)
        temp_basal == get_loop_inputs(self.temp_basal_event_timeline, t, 24)
        carb == get_loop_inputs(self.carb_event_timeline, t, 24)
    IN  [assembled |-> TRUE,
         time_to_calculate_at |-> t,
         bolus |-> bolus,
         temp_basal |-> temp_basal,
         dose |-> bolus \o temp_basal,
         carb |-> carb]

\* LoopController.prepare_inputs, reduced to the histories: each of the
\* three timelines the controller refers to (self) is asked for the events of
\* the last num_hours_history hours before self.time, and the doses are the
\* boluses followed by the temp basals.  An event is <<start time, value>>.
prepare_inputs(self, t) ==
    LET bolus == get_loop_inputs(self.bolus_event_timeline, t, num_hours_history)
        temp_basal ==
            get_loop_inputs(self.temp_basal_event_timeline, t, num_hours_history)
        carb == get_loop_inputs(self.carb_event_timeline, t, num_hours_history)
    IN  [assembled |-> TRUE,
         time_to_calculate_at |-> t,
         bolus |-> bolus,
         temp_basal |-> temp_basal,
         dose |-> bolus \o temp_basal,
         carb |-> carb]

\* LoopController.update(time, virtual_patient=...) with the decision function
\* returning o and the acceptance gate answering accept: the new patient,
\* controller, heap of outputs, pump commands and gate answers, and whether
\* it raised.
LoopController_update(c, p, t, o, accept) ==
    LET bolus_rec == get_recommended_bolus(o)
        temp_basal_rec == get_recommended_temp_basal(t, o)
        branch == loop_branch(bolus_rec, temp_basal_rec, accept)
        pt == virtual_patient[p]
        self == bind_timelines([controller[c] EXCEPT !.time = t])
        returned == Append(outputs, o)
        assigned == assign_recommendations(returned, controller[c].recommendations,
                                           Len(returned))
        bound == [heap |-> IF branch = "raise" THEN returned ELSE assigned.heap,
                  ref |-> recommendations_after(branch = "raise",
                                                controller[c].recommendations,
                                                assigned.ref)]
    IN  [raised |-> branch = "raise",
         inputs |-> prepare_inputs(controller_timelines(self, pt, controller_config[c]),
                                   t),
         patient |->
            CASE branch = "bolus" -> set_bolus_recommendation_event(pt, t, bolus_rec)
              [] branch = "temp_basal" -> modulate_temp_basal(pt, temp_basal_rec)
              [] OTHER -> pt,
         calls |->
            IF branch = "temp_basal"
            THEN Append(pump_calls[p], temp_basal_command(temp_basal_rec))
            ELSE pump_calls[p],
         gate |->
            IF ~bolus_rec.raised /\ ~bolus_rec.is_none
            THEN Append(gate[p], accept) ELSE gate[p],
         outputs |-> bound.heap,
         controller |-> [self EXCEPT !.recommendations = bound.ref]]

\* LoopController.get_state(): the reference itself, not a copy.
controller_get_state(c) == controller[c].recommendations

\* ---------------------------------------------------------------- Simulation
\* SimulationState(patient_state=..., controller_state=...)
SimulationState(s) ==
    [patient_state |-> patient_get_state(virtual_patient[vp[s]]),
     controller_state |-> controller_get_state(ctl[s])]

\* d[k] = v on a Python dict kept as the sequence of its items: an existing
\* key keeps its place and takes the new value, a new key goes last.
DictSet(d, k, v) ==
    IF \E i \in 1..Len(d) : d[i].key = k
    THEN [i \in 1..Len(d) |-> IF d[i].key = k THEN [key |-> k, value |-> v] ELSE d[i]]
    ELSE Append(d, [key |-> k, value |-> v])

DictKeys(d) == [i \in 1..Len(d) |-> d[i].key]

\* Mutant: the snapshot is keyed by the start time.
store_key_start(s) == start_time[s]

\* The key store_state writes: self.time.
store_key(s) == time[s]

\* Simulation.store_state
store_state(s) ==
    DictSet(simulation_results[s], store_key(s), SimulationState(s))

\* Mutant: a strict comparison.
is_finished_strict(s) == time[s] - start_time[s] > duration_hrs[s]

\* Simulation.is_finished: hours passed >= duration_hrs.
is_finished(s) == time[s] - start_time[s] >= duration_hrs[s]

\* Simulation.get_results_df: one row per item of simulation_results, with
\* the nine columns of the dict the code builds.  The temp_basal column is
\* None (here <<>>) without an override, temp_basal_zeros is 0 then.
get_results_df(s) ==
    [i \in 1..Len(simulation_results[s]) |->
        LET st == simulation_results[s][i].value.patient_state
        IN  [time |-> simulation_results[s][i].key,
             bg |-> st.bg,
             bg_sensor |-> st.sensor_bg,
             iob |-> st.iob,
             temp_basal |-> IF st.pump_state.is_none THEN <<>>
                            ELSE <<st.pump_state.value>>,
             temp_basal_zeros |-> IF st.pump_state.is_none THEN 0
                                  ELSE st.pump_state.value,
             sbr |-> st.sbr,
             cir |-> st.cir,
             isf |-> st.isf]]

\* Mutant: the table is put whatever multiprocess says.
puts_results_always(s) == TRUE

\* Whether run() puts the table on the queue on its way out.
puts_results(s) == multiprocess[s]

Call(name, t) == <<name, t>>

\* Mutant: init() without the controller's update at t0.
Construct_without_controller(s, t, d, m, p, c) ==
    /\ pc[s] = "new"
    /\ start_time' = [start_time EXCEPT ![s] = t]
    /\ time' = [time EXCEPT ![s] = t]
    /\ duration_hrs' = [duration_hrs EXCEPT ![s] = d]
    /\ multiprocess' = [multiprocess EXCEPT ![s] = m]
    /\ vp' = [vp EXCEPT ![s] = p]
    /\ ctl' = [ctl EXCEPT ![s] = c]
    /\ simulation_results' = [simulation_results EXCEPT ![s] = <<>>]
    /\ queue' = [queue EXCEPT ![s] = <<>>]
    /\ pc' = [pc EXCEPT ![s] = "init_patient"]
    /\ UNCHANGED <<auxVars, loop_inputs, heapVars, log, runs>>

\* Simulation.__init__ up to the call of init(): the arguments are stored as
\* given (only start_time is a copy of time).
Construct(s, t, d, m, p, c) ==
    /\ pc[s] = "new"
    /\ start_time' = [start_time EXCEPT ![s] = t]
    /\ time' = [time EXCEPT ![s] = t]
    /\ duration_hrs' = [duration_hrs EXCEPT ![s] = d]
    /\ multiprocess' = [multiprocess EXCEPT ![s] = m]
    /\ vp' = [vp EXCEPT ![s] = p]
    /\ ctl' = [ctl EXCEPT ![s] = c]
    /\ simulation_results' = [simulation_results EXCEPT ![s] = <<>>]
    /\ queue' = [queue EXCEPT ![s] = <<>>]
    /\ pc' = [pc EXCEPT ![s] = "init_controller"]
    /\ UNCHANGED <<auxVars, loop_inputs, heapVars, log, runs>>

\* Mutant: the exception of a component call is caught and the run goes on.
after_call_caught(raised, then) == then

\* Where init(), update(), step() and run() go after a component call: none
\* of them has a try/except, so an exception leaves them all.
after_call(raised, then) == IF raised THEN "failed" ELSE then

\* self.controller.update(time, virtual_patient=self.virtual_patient), in
\* init() (then = "init_patient") and in update() (then = "tick_patient").
\* An exception leaves the constructor or run().
ControllerUpdate(s, at, then, o, accept) ==
    /\ pc[s] = at
    /\ LET r == LoopController_update(ctl[s], vp[s], time[s], o, accept)
       IN  /\ virtual_patient' = [virtual_patient EXCEPT ![vp[s]] = r.patient]
           /\ controller' = [controller EXCEPT ![ctl[s]] = r.controller]
           /\ outputs' = r.outputs
           /\ pump_calls' = [pump_calls EXCEPT ![vp[s]] = r.calls]
           /\ gate' = [gate EXCEPT ![vp[s]] = r.gate]
           /\ loop_inputs' = [loop_inputs EXCEPT ![ctl[s]] = r.inputs]
           /\ pc' = [pc EXCEPT ![s] = after_call(r.raised, then)]
    /\ log' = [log EXCEPT ![s] = Append(@, Call("controller.update", time[s]))]
    /\ UNCHANGED <<cfgVars, time, simulation_results, queue, runs, randomVars,
                   scheduleVars, timelineVars, configVars>>

\* init(): self.controller.update(self.time, ...)
InitController(s, o, accept) ==
    /\ ControllerUpdate(s, "init_controller", "init_patient", o, accept)
    /\ UNCHANGED np_pos

\* init(): self.virtual_patient.init()
InitPatient(s) ==
    /\ pc[s] = "init_patient"
    /\ virtual_patient' =
         [virtual_patient EXCEPT ![vp[s]] = patient_init(@, time[s])]
    /\ log' = [log EXCEPT ![s] = Append(@, Call("virtual_patient.init", time[s]))]
    /\ pc' = [pc EXCEPT ![s] = "init_predict"]
    /\ UNCHANGED <<auxVars, loop_inputs, controller, outputs, pump_calls, gate,
                   cfgVars, time, simulation_results, queue, runs>>

\* init(): self.virtual_patient.predict()
InitPredict(s) ==
    /\ pc[s] = "init_predict"
    /\ virtual_patient' = [virtual_patient EXCEPT ![vp[s]] = patient_predict(@)]
    /\ log' = [log EXCEPT ![s] = Append(@, Call("virtual_patient.predict", time[s]))]
    /\ pc' = [pc EXCEPT ![s] = "init_store"]
    /\ UNCHANGED <<auxVars, loop_inputs, controller, outputs, pump_calls, gate,
                   cfgVars, time, simulation_results, queue, runs>>

\* self.store_state(), in init() (then = "built": the constructor returns) and
\* in the loop of run() (then = "loop").
StoreState(s, at, then) ==
    /\ pc[s] = at
    /\ simulation_results' = [simulation_results EXCEPT ![s] = store_state(s)]
    /\ log' = [log EXCEPT ![s] = Append(@, Call("store_state", time[s]))]
    /\ pc' = [pc EXCEPT ![s] = then]
    /\ UNCHANGED <<auxVars, loop_inputs, heapVars, cfgVars, time, queue, runs>>

InitStore(s) == StoreState(s, "init_store", "built")

\* run() is called: on a constructed Simulation, or again on one whose run()
\* has returned.
RunCall(s) ==
    /\ pc[s] \in {"built", "returned"}
    /\ runs[s] < MaxRuns
    /\ runs' = [runs EXCEPT ![s] = @ + 1]
    /\ pc' = [pc EXCEPT ![s] = "loop"]
    /\ UNCHANGED <<auxVars, loop_inputs, heapVars, cfgVars, time,
                   simulation_results, queue, log>>

\* Mutant: the tick is one minute longer.
next_time_drifts(t) == t + TickMinutes + 1

\* step(): next_time = self.time + datetime.timedelta(minutes=5)
next_time(t) == t + TickMinutes

\* while not self.is_finished(): step(): self.time = next_time, and
\* self.update(next_time) follows with the time just set.
Step(s) ==
    /\ pc[s] = "loop"
    /\ ~is_finished(s)
    /\ time' = [time EXCEPT ![s] = next_time(@)]
    /\ pc' = [pc EXCEPT ![s] = "tick_prediction"]
    /\ UNCHANGED <<auxVars, loop_inputs, heapVars, cfgVars, simulation_results,
                   queue, log, runs>>

\* Mutant: update() goes from the prediction straight to the patient's update.
TickPrediction_skips_controller(s) ==
    /\ pc[s] = "tick_prediction"
    /\ virtual_patient' =
         [virtual_patient EXCEPT ![vp[s]] = patient_update_from_prediction(@, time[s])]
    /\ log' = [log EXCEPT ![s] =
                 Append(@, Call("virtual_patient.update_from_prediction", time[s]))]
    /\ pc' = [pc EXCEPT ![s] = "tick_patient"]
    /\ UNCHANGED <<auxVars, loop_inputs, controller, outputs, pump_calls, gate,
                   cfgVars, time, simulation_results, queue, runs>>

\* update(): self.virtual_patient.update_from_prediction(time)
TickPrediction(s) ==
    /\ pc[s] = "tick_prediction"
    /\ virtual_patient' =
         [virtual_patient EXCEPT ![vp[s]] = patient_update_from_prediction(@, time[s])]
    /\ log' = [log EXCEPT ![s] =
                 Append(@, Call("virtual_patient.update_from_prediction", time[s]))]
    /\ pc' = [pc EXCEPT ![s] = "tick_controller"]
    /\ UNCHANGED <<auxVars, loop_inputs, controller, outputs, pump_calls, gate,
                   cfgVars, time, simulation_results, queue, runs>>

\* update(): self.controller.update(time, ...)
TickController(s, o, accept) ==
    /\ ControllerUpdate(s, "tick_controller", "tick_patient", o, accept)
    /\ UNCHANGED np_pos

\* update(): self.virtual_patient.update(time)
TickPatient(s) ==
    /\ pc[s] = "tick_patient"
    /\ virtual_patient' =
         [virtual_patient EXCEPT ![vp[s]] = patient_update(@, time[s])]
    /\ log' = [log EXCEPT ![s] = Append(@, Call("virtual_patient.update", time[s]))]
    /\ pc' = [pc EXCEPT ![s] = "tick_store"]
    /\ UNCHANGED <<auxVars, loop_inputs, controller, outputs, pump_calls, gate,
                   cfgVars, time, simulation_results, queue, runs>>

\* run(): self.store_state() after step()
TickStore(s) == StoreState(s, "tick_store", "loop")

\* run() once is_finished(): the table goes on the queue if multiprocess, and
\* run() returns.
RunReturn(s) ==
    /\ pc[s] = "loop"
    /\ is_finished(s)
    /\ queue' = [queue EXCEPT ![s] =
                   IF puts_results(s) THEN Append(@, get_results_df(s)) ELSE @]
    /\ pc' = [pc EXCEPT ![s] = "returned"]
    /\ UNCHANGED <<auxVars, loop_inputs, heapVars, cfgVars, time,
                   simulation_results, log, runs>>

\* ---------------------------------------------- controllers of other classes
\* Mutant: the k-th next draw is counted from where the run before this one
\* left the stream, not from the seed.
np_random_unseeded(s, k) ==
    np_stream[((np_pos[s] + (s - 1) + k - 1) % Len(np_stream)) + 1]

\* np.random.random(): the k-th next draw of the stream in the process of
\* Simulation s, in tenths; a draw is in [0, 1).
np_random(s, k) ==
    np_stream[((np_pos[s] + k - 1) % Len(np_stream)) + 1]

\* The patient's acceptance probability, in tenths.
recommendation_accept_prob == 5

\* virtual_patient.does_accept_bolus_recommendation(bolus), on the draw u.
does_accept_bolus_recommendation(u) == u <= recommendation_accept_prob

\* Whether apply_loop_recommendations gets to the acceptance gate for o.
gate_consulted(o) ==
    ~get_recommended_bolus(o).raised /\ ~get_recommended_bolus(o).is_none

\* Mutant: "<=" for "<".
is_connected_inclusive(u, connect_prob) == u <= connect_prob

\* LoopControllerDisconnector.is_connected: u < self.connect_prob
is_connected(u, connect_prob) == u < connect_prob

\* Mutant: the update sets self.time as the other controllers' does.
DoNothingController_update_sets_time(c, t) == [c EXCEPT !.time = t]

\* DoNothingController.update: pass
DoNothingController_update(c, t) == c

\* controller.update(time, ...) of a LoopController whose decision function
\* is policy and whose patient's gate draws from np.random.
LoopUpdate(s, at, then) ==
    /\ kind[ctl[s]].class = "LoopController"
    /\ ControllerUpdate(s, at, then, policy[time[s]],
                        does_accept_bolus_recommendation(np_random(s, 1)))
    /\ np_pos' = [np_pos EXCEPT ![s] =
                     IF gate_consulted(policy[time[s]]) THEN @ + 1 ELSE @]

\* Mutant: a disconnected tick forgets the stored recommendation.
disconnected_update_clears(c, t) == [c EXCEPT !.time = t, !.recommendations = 0]

\* LoopControllerDisconnector.update when is_connected() says no: self.time
\* is set and nothing else is done.
disconnected_update(c, t) == [c EXCEPT !.time = t]

\* LoopControllerDisconnector.update: self.time = time, then one draw for
\* is_connected() and LoopController.update if it says so.
DisconnectorUpdate(s, at, then) ==
    /\ kind[ctl[s]].class = "LoopControllerDisconnector"
    /\ IF is_connected(np_random(s, 1), kind[ctl[s]].connect_prob)
       THEN /\ ControllerUpdate(s, at, then, policy[time[s]],
                                does_accept_bolus_recommendation(np_random(s, 2)))
            /\ np_pos' = [np_pos EXCEPT ![s] =
                             IF gate_consulted(policy[time[s]]) THEN @ + 2
                             ELSE @ + 1]
       ELSE /\ pc[s] = at
            /\ controller' =
                 [controller EXCEPT ![ctl[s]] = disconnected_update(@, time[s])]
            /\ np_pos' = [np_pos EXCEPT ![s] = @ + 1]
            /\ log' = [log EXCEPT ![s] =
                         Append(@, Call("controller.update", time[s]))]
            /\ pc' = [pc EXCEPT ![s] = then]
            /\ UNCHANGED <<virtual_patient, outputs, pump_calls, gate, cfgVars,
                           time, simulation_results, queue, runs, loop_inputs,
                           randomVars, scheduleVars, timelineVars, configVars>>

\* controller.update(time, ...) of a DoNothingController.
DoNothingUpdate(s, at, then) ==
    /\ kind[ctl[s]].class = "DoNothingController"
    /\ pc[s] = at
    /\ controller' =
         [controller EXCEPT ![ctl[s]] = DoNothingController_update(@, time[s])]
    /\ log' = [log EXCEPT ![s] = Append(@, Call("controller.update", time[s]))]
    /\ pc' = [pc EXCEPT ![s] = then]
    /\ UNCHANGED <<virtual_patient, outputs, pump_calls, gate, cfgVars, time,
                   simulation_results, queue, runs, loop_inputs, auxVars>>

\* ------------------------------------------------------ SettingSchedule24Hr
\* Times of day are seconds since 00:00.  The day of the model is four
\* minutes long: a time of day is taken modulo DaySeconds, as datetime.time()
\* drops the date.
DaySeconds == 4 * SecondsPerMinute

\* start_times: on the minute.
ScheduleStarts == {m * SecondsPerMinute : m \in 0..3}

\* duration_minutes
ScheduleDurations == {1, 2, 3}

\* values: the i-th value is i.
ScheduleValues(n) == [i \in 1..n |-> i]

\* The lists over S of at most n elements.
Lists(S, n) == UNION {[1..k -> S] : k \in 0..n}

\* The times asked for: the first and the last second of every minute.
LookupTimes ==
    {m * SecondsPerMinute + x : m \in 0..3, x \in {0, SecondsPerMinute - 1}}

\* What get_state() gave its caller; called is FALSE before the call.
NoResult == [called |-> FALSE, raised |-> FALSE, value |-> 0]

\* assert len(start_times) + len(values) + len(duration_minutes)
\*        == len(start_times) * 3
lengths_assert(start_times, values, duration_minutes) ==
    Len(start_times) + Len(values) + Len(duration_minutes) = Len(start_times) * 3

\* end_time = (start_datetime + duration - 1 second).time()
end_time(start, duration) ==
    (start + duration * SecondsPerMinute - 1) % DaySeconds

Min(a, b) == IF a <= b THEN a ELSE b

\* for start_time, value, duration_minutes in zip(...):
\*     self.schedule[(start_time, end_time)] = value
\* zip stops at the shortest list.
RECURSIVE zip_schedule(_, _, _, _)
zip_schedule(start_times, values, duration_minutes, n) ==
    IF n = 0 THEN <<>>
    ELSE DictSet(zip_schedule(start_times, values, duration_minutes, n - 1),
                 <<start_times[n], end_time(start_times[n], duration_minutes[n])>>,
                 values[n])

\* Mutant: the loop over the items does not return at the first match, the
\* last matching item's value is the result.
get_state_last(d, t) ==
    LET matches == {i \in 1..Len(d) : d[i].key[1] <= t /\ t <= d[i].key[2]}
    IN  IF matches = {}
        THEN [called |-> TRUE, raised |-> TRUE, value |-> 0]
        ELSE LET i == CHOOSE j \in matches : \A k \in matches : j >= k
             IN  [called |-> TRUE, raised |-> FALSE, value |-> d[i].value]

\* Mutant: a time that no segment matches gets the value of the first one.
get_state_default(d, t) ==
    LET matches == {i \in 1..Len(d) : d[i].key[1] <= t /\ t <= d[i].key[2]}
    IN  IF matches = {}
        THEN [called |-> TRUE, raised |-> Len(d) = 0,
              value |-> IF Len(d) = 0 THEN 0 ELSE d[1].value]
        ELSE LET i == CHOOSE j \in matches : \A k \in matches : j <= k
             IN  [called |-> TRUE, raised |-> FALSE, value |-> d[i].value]

\* SettingSchedule24Hr.get_state: the value of the first item of the dict
\* with start_time <= current_time <= end_time, an Exception without one.
get_state(d, t) ==
    LET matches == {i \in 1..Len(d) : d[i].key[1] <= t /\ t <= d[i].key[2]}
    IN  IF matches = {}
        THEN [called |-> TRUE, raised |-> TRUE, value |-> 0]
        ELSE LET i == CHOOSE j \in matches : \A k \in matches : j <= k
             IN  [called |-> TRUE, raised |-> FALSE, value |-> d[i].value]

\* SettingSchedule24Hr(time, name, start_times, values, duration_minutes): a
\* failed assert leaves no object.
ScheduleConstruct(t, start_times, values, duration_minutes) ==
    /\ schedule_pc = "new"
    /\ schedule_args' = [start_times |-> start_times, values |-> values,
                         duration_minutes |-> duration_minutes]
    /\ IF lengths_assert(start_times, values, duration_minutes)
       THEN /\ schedule' =
                 zip_schedule(start_times, values, duration_minutes,
                              Min(Len(start_times),
                                  Min(Len(values), Len(duration_minutes))))
            /\ schedule_time' = t
            /\ schedule_pc' = "built"
       ELSE /\ schedule_pc' = "failed"
            /\ UNCHANGED <<schedule, schedule_time>>
    /\ UNCHANGED <<simVars, np_pos, randomVars, timelineVars, configVars,
                   schedule_result>>

\* SettingSchedule24Hr.update(time): self.time = time.  The value of an
\* earlier lookup is no longer held by the caller.
ScheduleUpdate(t) ==
    /\ schedule_pc = "built"
    /\ schedule_time' = t
    /\ schedule_result' = NoResult
    /\ UNCHANGED <<simVars, np_pos, randomVars, timelineVars, configVars,
                   schedule_pc,
                   schedule_args, schedule>>

\* A call of get_state().
ScheduleGetState ==
    /\ schedule_pc = "built"
    /\ schedule_result' = get_state(schedule, schedule_time)
    /\ UNCHANGED <<simVars, np_pos, randomVars, timelineVars, configVars,
                   schedule_pc,
                   schedule_args, schedule, schedule_time>>

\* ------------------------------------------------------------ EventTimeline
\* The datetimes and the events an EventTimeline is built from.
TimelineDates == {0, TickMinutes}

TimelineEvents == {1, 2}

\* What get_event() gave its caller: the time asked for and the event, or
\* None (is_none); called is FALSE before the call.
NoEvent == [called |-> FALSE, time |-> 0, is_none |-> TRUE, event |-> 0]

\* pd.DataFrame({"date": datetimes, "event": events}): one row per element,
\* in the order of the lists.
DataFrame(datetimes, evs) ==
    [i \in 1..Len(datetimes) |-> [date |-> datetimes[i], event |-> evs[i]]]

\* EventTimeline.get_event: the event of the first row whose date is time
\* (self.events[event_mask]["event"].values[0]), None without such a row.
get_event(rows, t) ==
    LET event_mask == {i \in 1..Len(rows) : rows[i].date = t}
    IN  IF event_mask = {}
        THEN [called |-> TRUE, time |-> t, is_none |-> TRUE, event |-> 0]
        ELSE LET i == CHOOSE j \in event_mask : \A k \in event_mask : j <= k
             IN  [called |-> TRUE, time |-> t, is_none |-> FALSE,
                  event |-> rows[i].event]

\* EventTimeline(datetimes, events), the two lists of the same length (pandas
\* refuses others).
TimelineConstruct(datetimes, evs) ==
    /\ timeline_pc = "new"
    /\ Len(datetimes) = Len(evs)
    /\ events' = DataFrame(datetimes, evs)
    /\ timeline_pc' = "built"
    /\ UNCHANGED <<simVars, np_pos, randomVars, scheduleVars, configVars,
                   event_result>>

\* A call of get_event(time).
TimelineGetEvent(t) ==
    /\ timeline_pc = "built"
    /\ event_result' = get_event(events, t)
    /\ UNCHANGED <<simVars, np_pos, randomVars, scheduleVars, configVars,
                   timeline_pc, events>>

\* ------------------------------------------------------------ specifications
\* No SettingSchedule24Hr and no EventTimeline constructed.
Idle ==
    /\ schedule_pc = "new"
    /\ schedule_args = <<>>
    /\ schedule = <<>>
    /\ schedule_time = 0
    /\ schedule_result = NoResult
    /\ timeline_pc = "new"
    /\ events = <<>>
    /\ event_result = NoEvent

\* Nothing is drawn at random: LoopControllers, and one draw in each source
\* for the IdealSensors to leave alone.
NoRandom ==
    /\ np_pos = [s \in Sims |-> 0]
    /\ np_stream = <<0>>
    /\ sensor_stream = <<0>>
    /\ kind = [c \in ControllerIds |-> LoopControllerKind]
    /\ policy = <<>>

\* No Simulation constructed; the controllers of cs are the caller's.
NoSimulation(cs) ==
    /\ controller_config = [c \in cs |-> EmptyConfig]
    /\ controller = [c \in cs |-> InitialController]
    /\ loop_inputs = [c \in cs |-> NoInputs]
    /\ outputs = <<>>
    /\ pump_calls = [p \in cs |-> <<>>]
    /\ gate = [p \in cs |-> <<>>]
    /\ pc = [s \in Sims |-> "new"]
    /\ time = [s \in Sims |-> 0]
    /\ start_time = [s \in Sims |-> 0]
    /\ duration_hrs = [s \in Sims |-> 0]
    /\ multiprocess = [s \in Sims |-> FALSE]
    /\ vp = [s \in Sims |-> 1]
    /\ ctl = [s \in Sims |-> 1]
    /\ simulation_results = [s \in Sims |-> <<>>]
    /\ queue = [s \in Sims |-> <<>>]
    /\ log = [s \in Sims |-> <<>>]
    /\ runs = [s \in Sims |-> 0]

Init ==
    /\ Idle
    /\ NoRandom
    /\ NoSimulation(ControllerIds)
    /\ virtual_patient = [p \in PatientIds |-> InitialPatient]

\* The steps of Simulation s, with the decision function ranging over outs.
SimNext(s, outs) ==
    \/ InitPatient(s)
    \/ InitPredict(s)
    \/ InitStore(s)
    \/ RunCall(s)
    \/ Step(s)
    \/ TickPrediction(s)
    \/ TickPatient(s)
    \/ TickStore(s)
    \/ RunReturn(s)
    \/ \E o \in outs, accept \in BOOLEAN : InitController(s, o, accept)
    \/ \E o \in outs, accept \in BOOLEAN : TickController(s, o, accept)

\* One Simulation, every configuration and every decision output.
Next ==
    \/ \E t \in StartTimes, d \in Durations, m \in BOOLEAN,
          p \in PatientIds, c \in ControllerIds : Construct(1, t, d, m, p, c)
    \/ SimNext(1, DecisionOutputs)

Spec == Init /\ [][Next]_vars

\* Two Simulations constructed from the same patient and the same controller,
\* as a script that builds its components once does, with short durations and
\* a decision function of two outputs.
TwoDurations == {0, TickMinutes}

TwoOutputs ==
    {DecisionOutput(TRUE, 0, TRUE, TRUE, 1, 30),
     DecisionOutput(TRUE, 1, TRUE, FALSE, 0, 0)}

TwoNext ==
    \E s \in Sims :
        \/ \E t \in StartTimes, d \in TwoDurations,
              p \in PatientIds, c \in ControllerIds : Construct(s, t, d, FALSE, p, c)
        \/ SimNext(s, TwoOutputs)

TwoSpec == Init /\ [][TwoNext]_vars

\* The run loop goes on once run() is called: every step of run() is taken
\* when it can be.  Constructing a Simulation and calling run() are the
\* caller's choice.
RunSteps(s) ==
    \/ Step(s)
    \/ TickPrediction(s)
    \/ TickPatient(s)
    \/ TickStore(s)
    \/ RunReturn(s)
    \/ \E o \in DecisionOutputs, accept \in BOOLEAN : TickController(s, o, accept)

FairSpec == Spec /\ WF_vars(RunSteps(1))

\* One SettingSchedule24Hr built at 00:00 from lists of at most MaxSegments
\* elements, of any three lengths, and looked up at every time of LookupTimes.
ScheduleNext ==
    \/ /\ schedule_pc = "new"
       /\ \E n \in 0..MaxSegments,
             start_times \in Lists(ScheduleStarts, MaxSegments),
             duration_minutes \in Lists(ScheduleDurations, MaxSegments) :
               ScheduleConstruct(0, start_times, ScheduleValues(n), duration_minutes)
    \/ \E t \in LookupTimes : ScheduleUpdate(t)
    \/ ScheduleGetState

ScheduleSpec == Init /\ [][ScheduleNext]_vars

\* One EventTimeline built from at most MaxEvents events and asked for the
\* event at each date and at a date without one.
TimelineNext ==
    \/ /\ timeline_pc = "new"
       /\ \E datetimes \in Lists(TimelineDates, MaxEvents),
             evs \in Lists(TimelineEvents, MaxEvents) :
               TimelineConstruct(datetimes, evs)
    \/ \E t \in TimelineDates \cup {2 * TickMinutes} : TimelineGetEvent(t)

TimelineSpec == Init /\ [][TimelineNext]_vars

\* Two runs of one tick from the same seed, each in a process of its own with
\* its own patient (with a NoisySensor) and controller, the second run after
\* the first has returned.  The scenario fixes the classes of the two
\* controllers, the draws np.random and the sensors' random_state yield from
\* the seed, and the decision function.
Draws == {0, 9}

SensorNoises == {0 - 3, 4}

SeededTimes == {0, TickMinutes}

SeededOutputs ==
    {DecisionOutput(TRUE, 1, TRUE, TRUE, 1, 30),
     DecisionOutput(TRUE, 0, TRUE, TRUE, 1, 30)}

\* The classes of the first and the second run's controller.
SeededKinds ==
    {<<LoopControllerKind, LoopControllerKind>>,
     <<DoNothingControllerKind, DoNothingControllerKind>>,
     <<LoopControllerDisconnectorKind(10), LoopControllerKind>>}
    \cup {<<LoopControllerDisconnectorKind(p), LoopControllerDisconnectorKind(p)>> :
            p \in {0, 5, 10}}

SeededInit ==
    /\ Idle
    /\ NoSimulation(Sims)
    /\ virtual_patient = [p \in Sims |-> [InitialPatient EXCEPT !.sensor_noisy = TRUE]]
    /\ np_pos = [s \in Sims |-> 0]
    /\ np_stream \in [1..StreamLen -> Draws]
    /\ sensor_stream \in [1..(1 + 1) -> SensorNoises]
    /\ policy \in [SeededTimes -> SeededOutputs]
    /\ kind \in SeededKinds

SeededControllerUpdate(s, at, then) ==
    \/ LoopUpdate(s, at, then)
    \/ DisconnectorUpdate(s, at, then)
    \/ DoNothingUpdate(s, at, then)

\* The second run starts once the first has returned.
Turn(s) == s = 2 => pc[1] = "returned"

\* Each run is constructed, and run() is called on it once.
SeededNext ==
    \E s \in Sims :
        \/ Turn(s) /\ Construct(s, 0, TickMinutes, FALSE, s, s)
        \/ Turn(s) /\ SeededControllerUpdate(s, "init_controller", "init_patient")
        \/ Turn(s) /\ InitPatient(s)
        \/ Turn(s) /\ InitPredict(s)
        \/ Turn(s) /\ InitStore(s)
        \/ Turn(s) /\ runs[s] = 0 /\ RunCall(s)
        \/ Turn(s) /\ Step(s)
        \/ Turn(s) /\ TickPrediction(s)
        \/ Turn(s) /\ SeededControllerUpdate(s, "tick_controller", "tick_patient")
        \/ Turn(s) /\ TickPatient(s)
        \/ Turn(s) /\ TickStore(s)
        \/ Turn(s) /\ RunReturn(s)

SeededSpec == SeededInit /\ [][SeededNext]_vars

\* One Simulation of one tick whose pump already holds events at t0: from
\* before the look-back of num_hours_history hours, at its edge, inside it
\* and after t0.
WindowEvents ==
    {<<t, 1>> : t \in {0 - (num_hours_history * 60 + TickMinutes),
                       0 - num_hours_history * 60, 0 - TickMinutes, 0,
                       TickMinutes}}

FewWindowEvents ==
    {<<0 - (num_hours_history * 60 + TickMinutes), 1>>, <<0, 1>>}

WindowOutputs == {DecisionOutput(TRUE, 1, TRUE, TRUE, 1, 30)}

WindowInit ==
    /\ Idle
    /\ NoRandom
    /\ NoSimulation(ControllerIds)
    /\ \E bolus \in SUBSET WindowEvents, temp_basal \in SUBSET FewWindowEvents,
          carb \in SUBSET FewWindowEvents :
            virtual_patient =
                [p \in PatientIds |->
                    [InitialPatient EXCEPT
                        !.pump_bolus_event_timeline = bolus,
                        !.pump_temp_basal_event_timeline = temp_basal,
                        !.pump_carb_event_timeline = carb]]

WindowNext ==
    \/ \E t \in StartTimes, p \in PatientIds, c \in ControllerIds :
          Construct(1, t, TickMinutes, FALSE, p, c)
    \/ SimNext(1, WindowOutputs)

WindowSpec == WindowInit /\ [][WindowNext]_vars

\* ------------------------------------------------- the caller's config object
\* The settings and the events a scenario puts into a controller_config.
ConfigSettings == {0, 1}

ConfigEvents == {<<0, 1>>}

ConfigTimelines == {{}} \cup {{e} : e \in ConfigEvents}

\* The caller, which still holds the controller_config object it passed to
\* LoopController, assigns its controller_settings.
ConfigSetSettings(c, settings) ==
    /\ controller_config[c].controller_settings /= settings
    /\ controller_config' =
         [controller_config EXCEPT ![c].controller_settings = settings]
    /\ UNCHANGED <<simVars, np_pos, randomVars, scheduleVars, timelineVars>>

\* The caller adds an event to the bolus, temp-basal or carb timeline of its
\* controller_config object.
ConfigAddEvent(c, timeline, e) ==
    /\ e \notin controller_config[c][timeline]
    /\ controller_config' =
         [controller_config EXCEPT ![c][timeline] = add_event(@, e[1], e[2])]
    /\ UNCHANGED <<simVars, np_pos, randomVars, scheduleVars, timelineVars>>

ConfigOutputs == {DecisionOutput(TRUE, 1, TRUE, TRUE, 1, 30)}

\* A LoopController constructed from any config of the scenario.
ConfigInit ==
    /\ Idle
    /\ NoRandom
    /\ loop_inputs = [c \in ControllerIds |-> NoInputs]
    /\ outputs = <<>>
    /\ pump_calls = [p \in PatientIds |-> <<>>]
    /\ gate = [p \in PatientIds |-> <<>>]
    /\ pc = [s \in Sims |-> "new"]
    /\ time = [s \in Sims |-> 0]
    /\ start_time = [s \in Sims |-> 0]
    /\ duration_hrs = [s \in Sims |-> 0]
    /\ multiprocess = [s \in Sims |-> FALSE]
    /\ vp = [s \in Sims |-> 1]
    /\ ctl = [s \in Sims |-> 1]
    /\ simulation_results = [s \in Sims |-> <<>>]
    /\ queue = [s \in Sims |-> <<>>]
    /\ log = [s \in Sims |-> <<>>]
    /\ runs = [s \in Sims |-> 0]
    /\ virtual_patient = [p \in PatientIds |-> InitialPatient]
    /\ \E settings \in ConfigSettings, bolus \in ConfigTimelines :
          /\ controller_config =
                [c \in ControllerIds |-> ControllerConfig(settings, bolus, {}, {})]
          /\ controller =
                [c \in ControllerIds |-> LoopController_init(0, controller_config[c])]

\* The controller is given to a Simulation of one tick while the caller goes
\* on using its config object.
ConfigNext ==
    \/ \E c \in ControllerIds, settings \in ConfigSettings :
          ConfigSetSettings(c, settings)
    \/ \E c \in ControllerIds, e \in ConfigEvents,
          timeline \in {"bolus_event_timeline", "temp_basal_event_timeline",
                        "carb_event_timeline"} : ConfigAddEvent(c, timeline, e)
    \/ \E t \in StartTimes, p \in PatientIds, c \in ControllerIds :
          Construct(1, t, TickMinutes, FALSE, p, c)
    \/ SimNext(1, ConfigOutputs)

ConfigSpec == ConfigInit /\ [][ConfigNext]_vars

\* ------------------------------------------------------------------ claims
\* The calls of the zero-time pass of init() at t.
InitOps(t) ==
    <<Call("controller.update", t), Call("virtual_patient.init", t),
      Call("virtual_patient.predict", t), Call("store_state", t)>>

\* The calls of the tick at t.
TickOps(t) ==
    <<Call("virtual_patient.update_from_prediction", t),
      Call("controller.update", t), Call("virtual_patient.update", t),
      Call("store_state", t)>>

\* The calls of ticks 1..n after start time t0, tick after tick.
RECURSIVE TicksSchedule(_, _)
TicksSchedule(t0, n) ==
    IF n = 0 THEN <<>>
    ELSE TicksSchedule(t0, n - 1) \o TickOps(t0 + n * TickMinutes)

\* More ticks than any configured duration takes.
MostTicks == (MaxDuration \div TickMinutes) + 2

\* The calls made after the constructor's pass.
TickLog(s) == IF Len(log[s]) <= 4 THEN <<>> ELSE SubSeq(log[s], 5, Len(log[s]))

\* Ticks begun, and ticks whose snapshot is stored.
TicksBegun(s) == (Len(TickLog(s)) + 3) \div 4
TicksDone(s) == Len(TickLog(s)) \div 4

Constructed(s) ==
    pc[s] \in {"built", "loop", "tick_prediction", "tick_controller",
               "tick_patient", "tick_store", "returned"}
      \/ (pc[s] = "failed" /\ Len(log[s]) > 4)

\* C1: in every tick at time t of run(), update_from_prediction(t),
\* controller.update(t, patient), patient.update(t) and the store of the
\* snapshot for t happen in this order, each once, and no call of tick t+1 is
\* made before the snapshot of tick t is stored: the calls made after
\* construction, each with the time it was given, are always a prefix of the
\* ticks' schedule, and each completed tick left its snapshot under its own
\* time.
C1_TickOrder ==
    \A s \in Sims :
        /\ \E n \in 0..MostTicks :
              IsPrefix(TickLog(s), TicksSchedule(start_time[s], n))
        /\ Constructed(s) =>
              /\ Len(simulation_results[s]) = TicksDone(s) + 1
              /\ TicksDone(s) > 0 =>
                    Last(simulation_results[s]).key =
                        start_time[s] + TicksDone(s) * TickMinutes

\* Two ticks ran to the end and run() returned.
C1_Witness ==
    /\ pc[1] = "returned"
    /\ TickLog(1) = TickOps(start_time[1] + TickMinutes)
                      \o TickOps(start_time[1] + 2 * TickMinutes)

\* C2: constructing a Simulation makes exactly one zero-time pass at the start
\* time, controller.update(t0), virtual_patient.init(), predict(), store, before
\* any tick, so that before run() is called the result table holds exactly the
\* entry of the start time, and that entry shows the state after the
\* controller's t0 commands: the recommendation of t0, the temp basal it set
\* and the insulin of the bolus it recorded.
C2_InitPass ==
    \A s \in Sims :
        /\ IsPrefix(log[s], InitOps(start_time[s]))
              \/ IsPrefix(InitOps(start_time[s]), log[s])
        /\ Constructed(s) =>
              /\ Len(log[s]) >= 4
              /\ simulation_results[s][1].key = start_time[s]
        /\ pc[s] = "built" =>
              /\ log[s] = InitOps(start_time[s])
              /\ DictKeys(simulation_results[s]) = <<start_time[s]>>
              /\ LET e == simulation_results[s][1].value
                     t0 == start_time[s]
                 IN  /\ e.controller_state > 0
                     /\ e = SimulationState(s)
                     /\ LET o == outputs[e.controller_state]
                            accepted == gate[vp[s]] /= <<>> /\ Last(gate[vp[s]])
                        IN  /\ (o.bolus > 0 /\ accepted) => e.patient_state.iob = 1
                            /\ (~(o.bolus > 0 /\ accepted) /\ o.tb_key /\ o.tb_set
                                  /\ ~(o.rate = 0 /\ o.duration = 0)) =>
                                  e.patient_state.pump_state =
                                      TempBasal(t0, o.rate, o.duration)

\* The constructor returned with the temp basal of t0 in the first snapshot.
C2_Witness ==
    /\ pc[1] = "built"
    /\ ~simulation_results[1][1].value.patient_state.pump_state.is_none

\* The number of ticks a duration of d minutes takes: the smallest n >= 0 with
\* n * 5 minutes >= d.
ExpectedTicks(d) ==
    CHOOSE n \in 0..MostTicks :
        /\ n * TickMinutes >= d
        /\ \A m \in 0..(n - 1) : m * TickMinutes < d

GridKeys(t0, n) == [k \in 1..(n + 1) |-> t0 + (k - 1) * TickMinutes]

\* C4: run() captures one snapshot per tick: when run() returns after n ticks
\* the result table holds exactly n + 1 entries, keyed start_time + 5 k minutes
\* for k = 0..n, none missing and none extra.
C4_OneSnapshotPerTick ==
    \A s \in Sims :
        pc[s] = "returned" =>
            DictKeys(simulation_results[s]) = GridKeys(start_time[s], TicksBegun(s))

\* run() returned after two ticks with three entries.
C4_Witness ==
    /\ pc[1] = "returned"
    /\ TicksBegun(1) = 2
    /\ Len(simulation_results[1]) = 3

\* What a reader of the table sees under an entry: the key, the patient state
\* and the record the controller state refers to.
Read(entry, heap) ==
    [key |-> entry.key,
     patient_state |-> entry.value.patient_state,
     controller_state |->
        IF entry.value.controller_state = 0 THEN <<>>
        ELSE <<heap[entry.value.controller_state]>>]

\* C5: a SimulationState stored under a timestamp is never mutated or replaced
\* afterwards: whatever a later step does to the patient, the pump and the
\* controller, every entry of the table still reads as it did.
C5_SnapshotsImmutable ==
    [][\A s \in Sims : \A i \in 1..Len(simulation_results[s]) :
          /\ i <= Len(simulation_results'[s])
          /\ Read(simulation_results'[s][i], outputs')
                = Read(simulation_results[s][i], outputs)]_vars

\* A finished run whose snapshots differ in the patient and in the controller.
C5_Witness ==
    /\ pc[1] = "returned"
    /\ Len(simulation_results[1]) = 3
    /\ Read(simulation_results[1][1], outputs).patient_state
          /= Read(simulation_results[1][3], outputs).patient_state
    /\ Read(simulation_results[1][1], outputs).controller_state
          /= Read(simulation_results[1][3], outputs).controller_state

\* What Simulation s holds of its components: the patient with its pump and
\* timelines, the pump's commands, the controller.
Components(s) ==
    <<virtual_patient[vp[s]], pump_calls[vp[s]], controller[ctl[s]]>>

\* C6: the engine deep-copies its components at construction, so two
\* Simulations constructed from the same virtual_patient and controller share
\* no mutable state: a step of one run leaves the patient, pump, timelines
\* and controller of the other unchanged.
C6_NoSharedState ==
    [][\A s \in Sims, r \in Sims :
          (s /= r /\ Constructed(s) /\ Constructed(r) /\ pc'[s] /= pc[s]
             /\ pc'[r] = pc[r])
          => Components(r)' = Components(r)]_vars

\* run() calls that have returned.
RunsReturned(s) ==
    IF pc[s] = "returned" THEN runs[s] ELSE Max(runs[s] - 1, 0)

\* Every message on the queue was put after is_finished() held and has one row
\* for every snapshot of the run.
WholeTables(s) ==
    \A i \in 1..Len(queue[s]) :
        /\ is_finished(s)
        /\ queue[s][i] = get_results_df(s)
        /\ Len(queue[s][i]) = Len(simulation_results[s])
        /\ \A k \in 1..Len(queue[s][i]) :
              queue[s][i][k].time = simulation_results[s][k].key

DecisionStep(s) ==
    /\ pc[s] \in {"init_controller", "tick_controller"}
    /\ pc'[s] /= pc[s]

\* The gate was consulted in this step and accepted.
Accepted(s) ==
    /\ Len(gate'[vp[s]]) > Len(gate[vp[s]])
    /\ Last(gate'[vp[s]])

TimelinesUnchanged(s) ==
    /\ virtual_patient'[vp[s]].bolus_event_timeline
          = virtual_patient[vp[s]].bolus_event_timeline
    /\ virtual_patient'[vp[s]].pump_bolus_event_timeline
          = virtual_patient[vp[s]].pump_bolus_event_timeline

HasTempBasal(o) == o.tb_key /\ o.tb_set

\* The pump received exactly this one command in the step.
PumpReceived(s, cmd) == pump_calls'[vp[s]] = Append(pump_calls[vp[s]], cmd)

\* C8: in each tick where LoopController invokes the decision function (and
\* the output carries its bolus entry), exactly one of four outcomes is
\* applied: (1) a bolus > 0 is recommended and accepted: it is recorded at the
\* tick time on the patient's and on the pump's bolus timeline and no
\* temp-basal command is sent; (2) otherwise a temp basal of rate 0 and
\* duration 0 is recommended: deactivate_temp_basal is called, set_temp_basal is
\* not; (3) otherwise another temp basal is recommended: set_temp_basal is
\* called with that rate and duration, starting at the tick time; (4) otherwise
\* neither the pump nor any timeline is changed.
C8_FourOutcomes ==
    [][\A s \in Sims :
          (DecisionStep(s) /\ Last(outputs').bolus_key) =>
             LET o == Last(outputs')
                 t == time[s]
                 pt == virtual_patient[vp[s]]
                 pt2 == virtual_patient'[vp[s]]
             IN  IF o.bolus > 0 /\ Accepted(s)
                 THEN /\ pt2.bolus_event_timeline
                            = add_event(pt.bolus_event_timeline, t, o.bolus)
                      /\ pt2.pump_bolus_event_timeline
                            = add_event(pt.pump_bolus_event_timeline, t, o.bolus)
                      /\ <<t, o.bolus>> \in pt2.bolus_event_timeline
                      /\ <<t, o.bolus>> \in pt2.pump_bolus_event_timeline
                      /\ pump_calls'[vp[s]] = pump_calls[vp[s]]
                      /\ pt2.temp_basal = pt.temp_basal
                 ELSE IF HasTempBasal(o) /\ o.rate = 0 /\ o.duration = 0
                 THEN /\ PumpReceived(s, <<"deactivate_temp_basal", 0, 0, 0>>)
                      /\ pt2.temp_basal.is_none
                      /\ TimelinesUnchanged(s)
                 ELSE IF HasTempBasal(o)
                 THEN /\ PumpReceived(s, <<"set_temp_basal", t, o.rate, o.duration>>)
                      /\ pt2.temp_basal = TempBasal(t, o.rate, o.duration)
                      /\ TimelinesUnchanged(s)
                 ELSE /\ pt2 = pt
                      /\ pump_calls'[vp[s]] = pump_calls[vp[s]]]_vars

\* One run saw a bolus recorded, a temp basal cancelled and one set, and a tick
\* without any recommendation.
C8_Witness ==
    /\ virtual_patient[1].bolus_event_timeline /= {}
    /\ \E i \in 1..Len(pump_calls[1]) : pump_calls[1][i][1] = "deactivate_temp_basal"
    /\ \E i \in 1..Len(pump_calls[1]) : pump_calls[1][i][1] = "set_temp_basal"

\* C9 as claimed: whenever the decision output of a tick contains a temp-basal
\* recommendation, the controller applies it to the pump in that tick (set or
\* cancel), whatever the bolus recommendation was and whatever the gate
\* answered.  (Stated for outputs that carry their bolus entry.)
C9_TempBasalAlwaysApplied ==
    [][\A s \in Sims :
          (DecisionStep(s) /\ Last(outputs').bolus_key /\ HasTempBasal(Last(outputs')))
          => PumpReceived(s,
                temp_basal_command(get_recommended_temp_basal(time[s], Last(outputs'))))]_vars

\* C9 as amended: a temp-basal recommendation in the decision output of a tick
\* is applied to the pump in that tick (set or cancel) exactly when no bolus
\* was recommended and accepted in it: a refusal of the gate never keeps a temp
\* basal from the pump, an accepted bolus does, and the pump then receives no
\* temp-basal command in that tick.
C9_TempBasalUnlessBolus ==
    [][\A s \in Sims :
          (DecisionStep(s) /\ Last(outputs').bolus_key /\ HasTempBasal(Last(outputs')))
          => IF Last(outputs').bolus > 0 /\ Accepted(s)
             THEN pump_calls'[vp[s]] = pump_calls[vp[s]]
             ELSE PumpReceived(s,
                    temp_basal_command(
                        get_recommended_temp_basal(time[s], Last(outputs'))))]_vars

\* The gate refused a bolus and the temp basal recommended beside it is on the
\* pump.
C9_Witness ==
    /\ gate[1] /= <<>>
    /\ ~Last(gate[1])
    /\ outputs /= <<>>
    /\ Last(outputs).bolus > 0
    /\ HasTempBasal(Last(outputs))
    /\ pump_calls[1] /= <<>>
    /\ Last(pump_calls[1]) = <<"set_temp_basal", controller[1].time,
                                Last(outputs).rate, Last(outputs).duration>>

\* C10: a decision output that lacks an expected key is fatal: if the output
\* does not contain recommended_bolus, or does not contain
\* recommended_temp_basal, LoopController.update raises instead of treating the
\* tick as one without recommendation.
C10_MissingKeyFatal ==
    [][\A s \in Sims :
          (DecisionStep(s)
             /\ (~Last(outputs').bolus_key \/ ~Last(outputs').tb_key))
          => pc'[s] = "failed"]_vars

\* ------------------------------------------------- claims on the schedule
\* The zipped segments of the constructor's arguments.
Segments ==
    1..Min(Len(schedule_args.start_times),
           Min(Len(schedule_args.values), Len(schedule_args.duration_minutes)))

\* The time of day t is in the segment of duration minutes that starts at
\* start: in the half-open range [start, start + duration) on the clock.
Covered(t, start, duration) ==
    (t - start + DaySeconds) % DaySeconds < duration * SecondsPerMinute

\* The times of day of the i-th segment.
SegmentTimes(i) ==
    {t \in 0..(DaySeconds - 1) :
        Covered(t, schedule_args.start_times[i], schedule_args.duration_minutes[i])}

\* The i-th segment holds the time asked for.
Holds(i) ==
    Covered(schedule_time, schedule_args.start_times[i],
            schedule_args.duration_minutes[i])

EqualLengths ==
    /\ Len(schedule_args.start_times) = Len(schedule_args.values)
    /\ Len(schedule_args.start_times) = Len(schedule_args.duration_minutes)

NonOverlapping ==
    \A i, j \in Segments : i /= j => SegmentTimes(i) \cap SegmentTimes(j) = {}

CoversDay == UNION {SegmentTimes(i) : i \in Segments} = 0..(DaySeconds - 1)

\* A segment whose end lies before its start on the clock.
Inverted(i) ==
    schedule_args.start_times[i] + schedule_args.duration_minutes[i] * SecondsPerMinute
        > DaySeconds

\* C17: a lookup in a schedule whose segments do not overlap and cover the
\* whole day returns a value at every time of day and never raises, segments
\* that end at or run through midnight included.
C17_CoveredDayNeverRaises ==
    (schedule_pc = "built" /\ EqualLengths /\ NonOverlapping /\ CoversDay
        /\ schedule_result.called)
    => (~schedule_result.raised
        /\ \E i \in Segments : /\ Holds(i)
                                /\ schedule_result.value = schedule_args.values[i])

\* C18: a lookup at a time of day that no segment covers fails with an
\* error; a lookup that returns gives the value of a segment covering the
\* time, never a default or a neighbour's value; a lookup, failed or not,
\* leaves the schedule as it was.
C18_GapLookupFails ==
    /\ [](schedule_result.called =>
            /\ (\A i \in Segments : ~Holds(i))
                  => schedule_result.raised
            /\ ~schedule_result.raised
                  => \E i \in Segments :
                        /\ Holds(i)
                        /\ schedule_result.value = schedule_args.values[i])
    /\ [][schedule_pc = "built" => schedule' = schedule]_vars

\* A failed lookup in a schedule that has segments, at a time none covers.
C18_Witness ==
    /\ schedule_pc = "built"
    /\ schedule /= <<>>
    /\ schedule_result.called
    /\ schedule_result.raised
    /\ \A i \in Segments : ~Holds(i)

\* C19: construction with three lists that are not all of the same length
\* fails; no schedule with dropped segments is created.
C19_UnequalLengthsRejected ==
    (schedule_pc /= "new" /\ ~EqualLengths) => schedule_pc = "failed"

\* C20: construction with overlapping segments, or with a segment whose end
\* is before its start, fails.
C20_OverlapRejected ==
    (schedule_pc /= "new" /\ EqualLengths
        /\ (~NonOverlapping \/ \E i \in Segments : Inverted(i)))
    => schedule_pc = "failed"

\* --------------------------------------------- claims on the EventTimeline
\* The rows of the timeline at time t, in the order they were given.
RowsAt(t) == {i \in 1..Len(events) : events[i].date = t}

\* C16: an EventTimeline holds at most one event per timestamp, and
\* get_event(time) returns the event given last for that timestamp, None for
\* a timestamp without an event.
C16_LastWriteWins ==
    timeline_pc = "built" =>
        /\ \A t \in TimelineDates : Cardinality(RowsAt(t)) <= 1
        /\ event_result.called =>
              IF RowsAt(event_result.time) = {} THEN event_result.is_none
              ELSE /\ ~event_result.is_none
                   /\ \E i \in RowsAt(event_result.time) :
                         /\ \A j \in RowsAt(event_result.time) : j <= i
                         /\ event_result.event = events[i].event

\* ------------------------------------------- claims on the look-back window
\* The start times of a history are within the look-back before t and in
\* non-decreasing order.
Windowed(history, t) ==
    /\ \A i \in 1..Len(history) :
          /\ t - num_hours_history * 60 <= history[i][1]
          /\ history[i][1] <= t
    /\ \A i, j \in 1..Len(history) : i <= j => history[i][1] <= history[j][1]

\* The histories of timeline events in the three parts of an input record.
Histories(inputs) == <<inputs.bolus, inputs.temp_basal, inputs.carb>>

\* The pump's three timelines, in the same order.
PumpTimelines(pt) ==
    <<pt.pump_bolus_event_timeline, pt.pump_temp_basal_event_timeline,
      pt.pump_carb_event_timeline>>

\* C15: the bolus, temp-basal and carb histories assembled at a tick at t hold
\* only events that start within [t - 8 hours, t], each history in
\* non-decreasing order of start time, and the history of an empty timeline is
\* empty.
C15_WindowedHistory ==
    /\ [](\A c \in DOMAIN loop_inputs :
            loop_inputs[c].assembled =>
                \A k \in 1..3 :
                    Windowed(Histories(loop_inputs[c])[k],
                             loop_inputs[c].time_to_calculate_at))
    /\ [][\A s \in Sims :
            (pc[s] \in {"init_controller", "tick_controller"}
                /\ loop_inputs'[ctl[s]] /= loop_inputs[ctl[s]])
            => /\ loop_inputs'[ctl[s]].assembled
               /\ loop_inputs'[ctl[s]].time_to_calculate_at = time[s]
               /\ \A k \in 1..3 :
                     PumpTimelines(virtual_patient[vp[s]])[k] = {}
                        => Histories(loop_inputs'[ctl[s]])[k] = <<>>]_vars

\* A tick has assembled a bolus history of two events while the pump holds a
\* bolus from before the look-back and one from its edge at t0.
C15_Witness ==
    /\ pc[1] = "tick_patient"
    /\ loop_inputs[1].assembled
    /\ Len(loop_inputs[1].bolus) >= 2
    /\ \E e \in virtual_patient[1].pump_bolus_event_timeline :
          e[1] < time[1] - num_hours_history * 60
    /\ \E e \in WindowEvents :
          /\ e[1] = 0 - num_hours_history * 60
          /\ e \in virtual_patient[1].pump_bolus_event_timeline

\* --------------------------------- claims on the controllers of other classes
\* The snapshots of Simulation s as a reader of its table sees them.
Snapshots(s) ==
    [i \in 1..Len(simulation_results[s]) |-> Read(simulation_results[s][i], outputs)]

\* The patient of Simulation s has no temp basal, and neither its timelines
\* nor its pump's hold an event.
Untouched(s) ==
    /\ pump_calls[vp[s]] = <<>>
    /\ virtual_patient[vp[s]].temp_basal.is_none
    /\ virtual_patient[vp[s]].bolus_event_timeline = {}
    /\ virtual_patient[vp[s]].pump_bolus_event_timeline = {}
    /\ virtual_patient[vp[s]].pump_temp_basal_event_timeline = {}

\* Simulation s is constructed, or being constructed, with a disconnector of
\* connect probability 0.
NeverConnected(s) ==
    pc[s] /= "new" /\ kind[ctl[s]] = LoopControllerDisconnectorKind(0)

\* C11: a LoopControllerDisconnector with connect probability 0 never
\* forwards a tick, whatever the draws are: it never assembles inputs or
\* invokes the decision function, its pump gets no temp-basal command, and no
\* bolus is recorded.
C11_NeverForwards ==
    /\ [](\A s \in Sims :
            NeverConnected(s) =>
                /\ Untouched(s)
                /\ gate[vp[s]] = <<>>
                /\ controller[ctl[s]].recommendations = 0
                /\ ~loop_inputs[ctl[s]].assembled)
    /\ [][\A s \in Sims :
            (NeverConnected(s) /\ pc'[s] /= pc[s]) => outputs' = outputs]_vars

\* A run with such a disconnector has returned after two trials whose draws
\* were both 0.0, the decision function standing ready to recommend a bolus.
C11_Witness ==
    /\ pc[1] = "returned"
    /\ NeverConnected(1)
    /\ np_pos[1] = 2
    /\ np_stream[1] = 0
    /\ np_stream[2] = 0
    /\ policy[0].bolus > 0
    /\ Len(simulation_results[1]) = 2

\* C12: a LoopControllerDisconnector with connect probability 1 run beside a
\* plain LoopController on the same scenario from the same seed issues the
\* same pump commands and bolus records and leaves the same snapshots, the
\* acceptance gate drawing from the stream of the connection trial.
C12_SameAsPlainLoop ==
    (/\ kind = <<LoopControllerDisconnectorKind(10), LoopControllerKind>>
     /\ pc[1] = "returned"
     /\ pc[2] = "returned")
    => /\ pump_calls[vp[1]] = pump_calls[vp[2]]
       /\ virtual_patient[vp[1]].pump_bolus_event_timeline
            = virtual_patient[vp[2]].pump_bolus_event_timeline
       /\ virtual_patient[vp[1]].bolus_event_timeline
            = virtual_patient[vp[2]].bolus_event_timeline
       /\ Snapshots(1) = Snapshots(2)

\* Simulation s is constructed, or being constructed, with a
\* DoNothingController.
DoesNothing(s) == pc[s] /= "new" /\ kind[ctl[s]] = DoNothingControllerKind

\* C13: DoNothingController.update changes nothing: the pump's temp basal,
\* the pump's and the patient's timelines and the controller itself are as
\* before the call, and no snapshot of the run shows a temp basal or a
\* recommendation of the controller.
C13_DoNothingFrame ==
    /\ [](\A s \in Sims :
            DoesNothing(s) =>
                /\ Untouched(s)
                /\ controller[ctl[s]] = InitialController
                /\ \A i \in 1..Len(simulation_results[s]) :
                      /\ simulation_results[s][i].value.patient_state.pump_state.is_none
                      /\ simulation_results[s][i].value.patient_state.iob = 0
                      /\ simulation_results[s][i].value.controller_state = 0)
    /\ [][\A s \in Sims :
            (DoesNothing(s) /\ DecisionStep(s))
            => /\ Components(s)' = Components(s)
               /\ outputs' = outputs
               /\ gate' = gate]_vars

\* A run with a DoNothingController has returned with the snapshots of t0
\* and of one tick, under a decision function that would recommend a bolus.
C13_Witness ==
    /\ pc[1] = "returned"
    /\ DoesNothing(1)
    /\ Len(simulation_results[1]) = 2
    /\ Len(log[1]) = 8
    /\ policy[TickMinutes].bolus > 0

Columns(row) == DOMAIN row

\* C21: the table returned by get_results_df after a Loop-controlled run has a
\* carb column and a bolus column that report the events of the run row by
\* row; for a scenario without configured carbs the carb column sums to zero
\* (every row's carb is 0) and no bolus appears after the first row.
C21_CarbAndBolusColumns ==
    \A s \in Sims :
        \A i \in 1..Len(get_results_df(s)) :
            LET row == get_results_df(s)[i]
            IN  /\ {"carb", "bolus"} \subseteq Columns(row)
                /\ row.carb = 0
                /\ (i > 1 => row.bolus = 0)

\* --------------------------------------------------- claims on failed ticks
\* The decision output of this step lacks the recommended_bolus entry that
\* get_recommended_bolus indexes: the component call raises.
Raises(s) ==
    /\ DecisionStep(s)
    /\ ~Last(outputs').bolus_key

\* The timestamps under which s has stored a snapshot.
StoredTimes(s) ==
    {simulation_results[s][i].key : i \in 1..Len(simulation_results[s])}

\* What a run of s leaves behind for its caller.
RunState(s) == <<pc[s], time[s], simulation_results[s], queue[s], log[s], runs[s]>>

\* C22: when a component call raises during a tick the run aborts without
\* retry: the error leaves run() (the Simulation makes no further step), no
\* snapshot is stored for the failed tick, no later tick is executed, and
\* nothing is put on the result queue.
C22_AbortOnRaise ==
    /\ [](\A s \in Sims :
            (pc[s] = "failed" /\ Constructed(s))
            => /\ time[s] \notin StoredTimes(s)
               /\ Last(log[s]) = Call("controller.update", time[s])
               /\ queue[s] = <<>>)
    /\ [][\A s \in Sims :
            /\ Raises(s) => /\ pc'[s] = "failed"
                            /\ simulation_results'[s] = simulation_results[s]
                            /\ queue'[s] = queue[s]
            /\ pc[s] = "failed" => RunState(s)' = RunState(s)]_vars

\* A run with the result queue failed in its second tick: the snapshots of
\* t0 and of the first tick are all there is, the queue is empty.
C22_Witness ==
    /\ pc[1] = "failed"
    /\ multiprocess[1]
    /\ time[1] = start_time[1] + 2 * TickMinutes
    /\ Len(simulation_results[1]) = 2
    /\ queue[1] = <<>>

\* ------------------------------------------------------ claims on the clock
\* A component call or store made in this step of s carries the time of s,
\* which the last step() has set.
CallsAtTime(s) ==
    log'[s] /= log[s]
    => /\ log'[s] = Append(log[s], Last(log'[s]))
       /\ Last(log'[s])[2] = time[s]

\* C28: simulated time stays on the 5-minute grid: start_time is unchanged
\* since construction, time - start_time is a non-negative multiple of 5
\* minutes, each step() increases time by exactly 5 minutes (and nothing else
\* changes it), and every component call of a tick gets the time step() has
\* already advanced to.
C28_FiveMinuteGrid ==
    /\ [](\A s \in Sims :
            pc[s] /= "new"
            => /\ time[s] - start_time[s] >= 0
               /\ (time[s] - start_time[s]) % TickMinutes = 0)
    /\ [][\A s \in Sims :
            /\ pc[s] /= "new" => start_time'[s] = start_time[s]
            /\ (pc[s] = "loop" /\ pc'[s] = "tick_prediction")
               => time'[s] = time[s] + TickMinutes
            /\ (pc[s] /= "new" /\ ~(pc[s] = "loop" /\ pc'[s] = "tick_prediction"))
               => time'[s] = time[s]
            /\ pc[s] /= "new" => CallsAtTime(s)]_vars

\* The second tick of a run is complete: its three component calls and its
\* snapshot carry t0 + 10 minutes.
C28_Witness ==
    /\ pc[1] = "loop"
    /\ time[1] = start_time[1] + 2 * TickMinutes
    /\ Last(log[1]) = Call("store_state", time[1])
    /\ log[1] = InitOps(start_time[1]) \o TicksSchedule(start_time[1], 2)

\* The record get_state() of the controller of s returns, None as <<>>.
Recommendation(c, heap) ==
    IF c.recommendations = 0 THEN <<>> ELSE <<heap[c.recommendations]>>

\* C29: an error while extracting the recommendation leaves state unchanged:
\* if get_recommended_bolus raises on the decision output of a tick, no bolus
\* has been recorded on either timeline, no temp-basal command has been sent
\* to the pump (and the pump's override is as it was), the acceptance gate has
\* not been consulted, and the controller's stored recommendation is still
\* the one of the previous successful tick.
C29_ExtractionErrorNoEffect ==
    [][\A s \in Sims :
          Raises(s)
          => /\ pc'[s] = "failed"
             /\ TimelinesUnchanged(s)
             /\ pump_calls'[vp[s]] = pump_calls[vp[s]]
             /\ virtual_patient'[vp[s]].temp_basal = virtual_patient[vp[s]].temp_basal
             /\ gate'[vp[s]] = gate[vp[s]]
             /\ controller'[ctl[s]].recommendations = controller[ctl[s]].recommendations
             /\ Recommendation(controller'[ctl[s]], outputs')
                  = Recommendation(controller[ctl[s]], outputs)]_vars

\* The extraction failed in a tick after a bolus was accepted at t0: the
\* timelines hold that one bolus, the stored recommendation is the output of
\* t0 and not the output that raised.
C29_Witness ==
    /\ pc[1] = "failed"
    /\ time[1] = start_time[1] + TickMinutes
    /\ gate[vp[1]] = <<TRUE>>
    /\ Cardinality(virtual_patient[vp[1]].pump_bolus_event_timeline) = 1
    /\ controller[ctl[1]].recommendations = 1
    /\ Len(outputs) = 2
    /\ ~outputs[2].bolus_key

\* ------------------------------------------ claims on the stored segments
\* The end time of day the claim gives the i-th segment.
StoredEnd(i) ==
    (schedule_args.start_times[i]
        + schedule_args.duration_minutes[i] * SecondsPerMinute - 1) % DaySeconds

\* The key under which the i-th segment is stored.
SegmentKey(i) == <<schedule_args.start_times[i], StoredEnd(i)>>

\* The i-th segment matches the time asked for: start <= t <= end on one day.
Matches(i) ==
    /\ schedule_args.start_times[i] <= schedule_time
    /\ schedule_time <= StoredEnd(i)

\* The first segment, in construction order, that matches the time asked for.
FirstMatch == CHOOSE i \in Segments : Matches(i) /\ \A j \in Segments : Matches(j) => i <= j

\* The last segment, in construction order, stored under the key of segment i.
LastWithKey(i) ==
    CHOOSE j \in Segments :
        /\ SegmentKey(j) = SegmentKey(i)
        /\ \A k \in Segments : SegmentKey(k) = SegmentKey(i) => k <= j

\* Every segment is stored under (start, start + duration - 1 s mod 24 h), a
\* lookup that no segment matches raises, and a segment that passes midnight
\* matches nothing.
StoredAndMatched ==
    /\ \A i \in Segments : \E k \in 1..Len(schedule) : schedule[k].key = SegmentKey(i)
    /\ \A i \in Segments : Inverted(i) => \A t \in 0..(DaySeconds - 1) :
            ~(schedule_args.start_times[i] <= t /\ t <= StoredEnd(i))
    /\ schedule_result.called
         => (schedule_result.raised <=> \A i \in Segments : ~Matches(i))

\* C30 as claimed: a segment's stored end is start + duration - 1 second
\* modulo 24 hours, lookup matches only start <= t <= end within one day, so
\* a segment that passes midnight matches no time of day, and when several
\* segments match a time the value of the first one in construction order is
\* returned.
C30_FirstSegmentValue ==
    schedule_pc = "built"
    => /\ StoredAndMatched
       /\ (schedule_result.called /\ ~schedule_result.raised)
            => schedule_result.value = schedule_args.values[FirstMatch]

\* C30, amended: as above, but the value returned is the one stored under the
\* key of the first matching segment, which is the value of the last segment
\* constructed with that same start and end.
C30_FirstKeyLastValue ==
    schedule_pc = "built"
    => /\ StoredAndMatched
       /\ (schedule_result.called /\ ~schedule_result.raised)
            => schedule_result.value = schedule_args.values[LastWithKey(FirstMatch)]

\* Two segments stored under different keys match the time asked for, and
\* the value of the one constructed first is returned.
C30_Witness ==
    /\ schedule_pc = "built"
    /\ schedule_result.called
    /\ ~schedule_result.raised
    /\ \E i, j \in Segments :
          /\ i < j
          /\ Matches(i) /\ Matches(j)
          /\ SegmentKey(i) /= SegmentKey(j)
          /\ schedule_args.values[i] /= schedule_args.values[j]
          /\ schedule_result.value = schedule_args.values[i]

\* ------------------------------------------- claims on the assembled inputs
\* C25: the merged dosing history handed to the decision function is one
\* chronological record: in every input record prepare_inputs has built, the
\* dose entries are the entries of the bolus and of the temp-basal history,
\* and their start times are in non-decreasing order across both kinds.
C25_MergedDosesChronological ==
    \A c \in DOMAIN loop_inputs :
        loop_inputs[c].assembled
        => /\ Len(loop_inputs[c].dose)
                = Len(loop_inputs[c].bolus) + Len(loop_inputs[c].temp_basal)
           /\ \A i, j \in 1..Len(loop_inputs[c].dose) :
                 i <= j => loop_inputs[c].dose[i][1] <= loop_inputs[c].dose[j][1]

\* ------------------------------------------ claims on the timelines in use
\* The events of a history.
Events(history) == {history[i] : i \in 1..Len(history)}

\* The events of a timeline that start in the look-back window of t.
InWindow(timeline, t) ==
    {e \in timeline : t - num_hours_history * 60 <= e[1] /\ e[1] <= t}

\* C24: the controller reads and writes the patient's pump timelines, never a
\* private copy: in every forwarded tick its three timeline references are
\* the timelines of virtual_patient.pump, the histories it assembles are the
\* events those timelines hold in the look-back window at the start of the
\* tick, and an accepted bolus is written to the pump's bolus timeline at the
\* tick time, so that the bolus history of the next tick holds it.
C24_PumpTimelinesInUse ==
    [][\A s \in Sims :
          DecisionStep(s)
          => LET pt == virtual_patient[vp[s]]
                 inputs == loop_inputs'[ctl[s]]
             IN  /\ controller'[ctl[s]].timelines = "pump"
                 /\ inputs.assembled
                 /\ Events(inputs.bolus) = InWindow(pt.pump_bolus_event_timeline, time[s])
                 /\ Events(inputs.temp_basal)
                      = InWindow(pt.pump_temp_basal_event_timeline, time[s])
                 /\ Events(inputs.carb) = InWindow(pt.pump_carb_event_timeline, time[s])
                 /\ Accepted(s)
                      => <<time[s], Last(outputs').bolus>>
                            \in virtual_patient'[vp[s]].pump_bolus_event_timeline]_vars

\* The bolus accepted at t0 is in the bolus history assembled one tick later.
C24_Witness ==
    /\ pc[1] = "tick_patient"
    /\ time[1] = start_time[1] + TickMinutes
    /\ Len(gate[vp[1]]) >= 1
    /\ gate[vp[1]][1]
    /\ loop_inputs[ctl[1]].time_to_calculate_at = time[1]
    /\ \E e \in Events(loop_inputs[ctl[1]].bolus) : e[1] = start_time[1]

\* ------------------------------------------------ claims on the config copy
\* What the controller of s holds of its configuration: the copied config
\* and the timelines its three attributes refer to.
ControllerView(s) ==
    <<controller[ctl[s]].controller_config,
      controller_timelines(controller[ctl[s]], virtual_patient[vp[s]],
                           controller_config[ctl[s]])>>

\* C27: the controller takes a defensive copy of its configuration: after
\* LoopController is constructed it shares no mutable object with the
\* controller_config passed in, so a later change to that config object (its
\* settings or its bolus, temp-basal and carb timelines) is not visible
\* through the controller, and controller activity does not change the
\* caller's config.
C27_DefensiveCopy ==
    [][\A s \in Sims :
          /\ controller_config'[ctl[s]] /= controller_config[ctl[s]]
                => ControllerView(s)' = ControllerView(s)
          /\ controller'[ctl[s]] /= controller[ctl[s]]
                => controller_config'[ctl[s]] = controller_config[ctl[s]]]_vars

\* ------------------------------------------- claims on the controller state
\* The decision function was invoked in this step of s and its output was
\* taken over.
Invoked(s) ==
    /\ pc'[s] /= pc[s]
    /\ Len(outputs') > Len(outputs)
    /\ pc'[s] /= "failed"

\* This step of s stored a snapshot.
Stored(s) == Len(simulation_results'[s]) > Len(simulation_results[s])

\* C23: LoopController.get_state returns, unmodified, the record returned by
\* the most recent invocation of the decision function (None before any
\* invocation), whichever action was applied for it: an invocation makes its
\* output the state, no other step changes the state or a returned record,
\* and each snapshot carries the state of its tick, so the snapshot of a tick
\* in which a LoopControllerDisconnector was disconnected carries the
\* recommendation of the last connected tick.
C23_RawLastRecommendation ==
    /\ [](\A s \in Sims :
            (pc[s] /= "new"
                /\ \A i \in 1..Len(log[s]) : log[s][i][1] /= "controller.update")
            => Recommendation(controller[ctl[s]], outputs) = <<>>)
    /\ [][/\ IsPrefix(outputs, outputs')
          /\ \A s \in Sims :
                LET before == Recommendation(controller[ctl[s]], outputs)
                    after == Recommendation(controller'[ctl[s]], outputs')
                IN  /\ Invoked(s) => after = <<Last(outputs')>>
                    /\ (pc[s] /= "new" /\ ~Invoked(s)) => after = before
                    /\ Stored(s)
                         => Read(Last(simulation_results'[s]), outputs').controller_state
                               = before]_vars

\* A disconnector that was connected at t0 and disconnected in the tick: the
\* snapshot of the tick carries the output of t0.
C23_Witness ==
    /\ kind[ctl[1]].class = "LoopControllerDisconnector"
    /\ pc[1] = "loop"
    /\ Len(simulation_results[1]) = 2
    /\ Len(outputs) = 1
    /\ np_pos[1] >= 2
    /\ Read(simulation_results[1][2], outputs).controller_state = <<outputs[1]>>
    /\ controller[ctl[1]].time = start_time[1] + TickMinutes

\* ------------------------------------------------ claims on the sensor trace
\* The times of the virtual_patient.update calls of s, in order: the calls
\* that run Sensor.update.
RECURSIVE UpdateTimes(_)
UpdateTimes(calls) ==
    IF calls = <<>> THEN <<>>
    ELSE LET rest == UpdateTimes(SubSeq(calls, 1, Len(calls) - 1))
         IN  IF Last(calls)[1] = "virtual_patient.update"
             THEN Append(rest, Last(calls)[2]) ELSE rest

\* The configured history of the sensor.
InitialHistory == InitialPatient.sensor_bg_history

\* C26: Sensor.update stores exactly one new measured point per call: after
\* any sequence of updates at increasing times, get_loop_inputs returns the
\* initial configured history followed by one (time, measured value) sample
\* per update, in ascending time order, with no sample for a time at which
\* update was not called; for an IdealSensor the stored value is the true
\* glucose passed in.
C26_OneSamplePerUpdate ==
    /\ [](\A s \in Sims :
            pc[s] /= "new"
            => LET history == sensor_get_loop_inputs(virtual_patient[vp[s]])
                   times == UpdateTimes(log[s])
               IN  /\ IsPrefix(InitialHistory, history)
                   /\ Len(history) = Len(InitialHistory) + Len(times)
                   /\ \A i \in 1..Len(times) :
                         history[Len(InitialHistory) + i][1] = times[i]
                   /\ \A i, j \in 1..Len(history) :
                         i < j => history[i][1] < history[j][1])
    /\ [][\A s \in Sims :
            (pc[s] = "tick_patient" /\ pc'[s] /= pc[s])
            => sensor_get_loop_inputs(virtual_patient'[vp[s]])
                 = Append(sensor_get_loop_inputs(virtual_patient[vp[s]]),
                          <<time[s], virtual_patient[vp[s]].bg>>)]_vars

\* Two updates have been stored behind the configured sample, the second
\* with a glucose that differs from the configured one.
C26_Witness ==
    /\ pc[1] = "tick_store"
    /\ Len(sensor_get_loop_inputs(virtual_patient[vp[1]])) = Len(InitialHistory) + 2
    /\ Last(sensor_get_loop_inputs(virtual_patient[vp[1]]))[1]
          = start_time[1] + 2 * TickMinutes
    /\ Last(sensor_get_loop_inputs(virtual_patient[vp[1]]))[2] /= InitialHistory[1][2]

====
